---- MODULE Spec2Model ----
(***************************************************************************)
(* A model of spotify-mcp: the DeviceResolver registry                     *)
(* (src/spotify_mcp/device_resolver.py), the AsyncSpotify facade           *)
(* (src/spotify_mcp/client.py) and the MCP tool handlers                   *)
(* (src/spotify_mcp/server.py).                                            *)
(*                                                                         *)
(* A Python str is modelled as a tuple of Unicode code points, so that     *)
(* str.lower() is computed letter by letter as CPython computes it.        *)
(***************************************************************************)
EXTENDS Integers, Sequences, FiniteSets, TLC

VARIABLES
    device_map,   \* DeviceResolver._device_map: folded name -> device id
    before,       \* history: _device_map as it was when the last call began
    log,          \* history: the set_device calls since the last invalidate
    last,         \* history: the last DeviceResolver call and what it returned
    inv,          \* the tool invocations in flight in the server process
    life          \* the server's lifespan phase, and a registry refresh under way

vars == <<device_map, before, log, last, inv, life>>

(***************************************************************************)
(* Values                                                                  *)
(***************************************************************************)

\* Python's None. Every str is a tuple of code points >= 65 here, so the
\* one-element tuple <<0>> is equal to no str of the model.
None == <<0>>

\* The empty dict, {}.
EmptyMap == [k \in {} |-> None]

\* The names callers pass: "", "A", "a", "AΣ", "aσ", "aς"
\* (Σ capital sigma, σ small sigma, ς small final sigma).
Names == {<<>>, <<65>>, <<97>>, <<65, 931>>, <<97, 963>>, <<97, 962>>}

\* resolve() takes str | None.
NameArgs == Names \cup {None}

\* Provider device identifiers (opaque strings): "1" and "2".
DeviceIds == {<<49>>, <<50>>}

\* The longest history of set_device calls kept between two invalidate calls.
MaxCalls == 3

(***************************************************************************)
(* str.lower()                                                             *)
(***************************************************************************)

\* Whether a code point is a cased letter (Latin A-Z, a-z, the three sigmas).
Cased(c) == (c \in 65..90) \/ (c \in 97..122) \/ (c \in {931, 962, 963})

\* CPython lower-cases a capital sigma to the final form when a cased letter
\* precedes it and none follows it, and to the ordinary small sigma otherwise.
FinalSigma(s, i) ==
    /\ i > 1
    /\ Cased(s[i - 1])
    /\ ~(i < Len(s) /\ Cased(s[i + 1]))

LowerChar(s, i) ==
    IF s[i] = 931 THEN (IF FinalSigma(s, i) THEN 962 ELSE 963)
    ELSE IF s[i] \in 65..90 THEN s[i] + 32
    ELSE s[i]

\* s.lower()
Lower(s) == [i \in 1..Len(s) |-> LowerChar(s, i)]

(***************************************************************************)
(* DeviceResolver                                                          *)
(***************************************************************************)

\* d[k] = v on a dict.
DictSet(d, k, v) == [x \in (DOMAIN d) \cup {k} |-> IF x = k THEN v ELSE d[x]]

\* d.get(k)
DictGet(d, k) == IF k \in DOMAIN d THEN d[k] ELSE None

\* A set_device that keeps the first identifier recorded for a key.
set_device_keep_first(m, name, device_id) ==
    IF Lower(name) \in DOMAIN m THEN m ELSE DictSet(m, Lower(name), device_id)

\* A set_device that accumulates the identifiers recorded for a key.
set_device_accumulate(m, name, device_id) ==
    IF Lower(name) \in DOMAIN m
    THEN DictSet(m, Lower(name), m[Lower(name)] \o device_id)
    ELSE DictSet(m, Lower(name), device_id)

\* A set_device that rebuilds the map around the new entry.
set_device_replace(m, name, device_id) ==
    DictSet(EmptyMap, Lower(name), device_id)

\* DeviceResolver.set_device: self._device_map[name.lower()] = device_id
set_device(m, name, device_id) == DictSet(m, Lower(name), device_id)

\* What a call that raises AttributeError yields (None has no lower()).
AttributeError == <<1>>

\* A resolve without the guard for falsy names.
resolve_unguarded(m, device_name) ==
    IF device_name = None THEN AttributeError ELSE DictGet(m, Lower(device_name))

\* DeviceResolver.resolve: None for a falsy name, else the dict's get.
resolve(m, device_name) ==
    IF device_name = None \/ device_name = <<>>
    THEN None
    ELSE DictGet(m, Lower(device_name))

\* An invalidate that forgets to clear.
invalidate_keep(m) == m

\* DeviceResolver.invalidate: self._device_map.clear()
invalidate(m) == EmptyMap

NoCall == [op |-> "none", name |-> None, id |-> None, ret |-> None]

ResolverInit ==
    /\ device_map = EmptyMap
    /\ before = EmptyMap
    /\ log = <<>>
    /\ last = NoCall

SetDevice(name, id) ==
    /\ Len(log) < MaxCalls
    /\ device_map' = set_device(device_map, name, id)
    /\ before' = device_map
    /\ log' = Append(log, <<name, id>>)
    /\ last' = [op |-> "set_device", name |-> name, id |-> id, ret |-> None]
    /\ UNCHANGED inv

ResolveCall(name) ==
    /\ last' = [op |-> "resolve", name |-> name, id |-> None,
                ret |-> resolve(device_map, name)]
    /\ before' = device_map
    /\ UNCHANGED <<device_map, log, inv>>

Invalidate ==
    /\ device_map' = invalidate(device_map)
    /\ before' = device_map
    /\ log' = <<>>
    /\ last' = [op |-> "invalidate", name |-> None, id |-> None, ret |-> None]
    /\ UNCHANGED inv

\* The lifespan has not been entered and no refresh is under way. A refresh
\* keeps the listing it records, what is left of it, and the map it found.
NotStarted ==
    [phase |-> "starting", listing |-> {}, todo |-> {}, old |-> EmptyMap]

ResolverNext ==
    \/ \E name \in Names, id \in DeviceIds :
           SetDevice(name, id) /\ UNCHANGED life
    \/ \E name \in NameArgs : ResolveCall(name) /\ UNCHANGED life
    \/ Invalidate /\ UNCHANGED life

\* A DeviceResolver on its own: no server, no tool invocation in flight.
ResolverOnlyInit ==
    /\ ResolverInit
    /\ inv = <<>>
    /\ life = NotStarted

ResolverSpec == ResolverOnlyInit /\ [][ResolverNext]_vars

(***************************************************************************)
(* The tool endpoints and the AsyncSpotify facade                          *)
(***************************************************************************)

\* The invocations a server process serves at once.
NumInv == 1

\* The threads of the executor asyncio.to_thread submits to: the event loop's
\* default ThreadPoolExecutor, min(32, cpu_count + 4) threads, scaled down.
MaxWorkers == 2

\* The invocations served at once where the claim is about the thread pool.
PoolInv == 3

\* The @mcp.tool() handlers of server.py.
Tools ==
    {"get_current_playback", "get_devices", "start_playback", "pause_playback",
     "add_to_queue", "set_volume", "transfer_playback", "search_spotify",
     "get_saved_tracks", "check_saved_tracks", "save_tracks",
     "remove_saved_tracks", "get_top_tracks", "get_recently_played",
     "create_playlist", "get_episode", "get_show_episodes"}

\* The handlers with a device_id parameter.
DeviceTools ==
    {"start_playback", "pause_playback", "add_to_queue", "set_volume",
     "transfer_playback"}

\* The handlers that answer ActionSuccessResponse.
AckTools == DeviceTools \cup {"save_tracks", "remove_saved_tracks"}

\* The device values a caller passes: nothing, or the name "A".
DeviceArgs == {None, <<65>>}

\* device_id is `str | None = None`, but a required `str` for transfer_playback.
DeviceArgsOf(tool) ==
    IF tool = "transfer_playback" THEN DeviceArgs \ {None}
    ELSE IF tool \in DeviceTools THEN DeviceArgs
    ELSE {None}

\* The AsyncSpotify method each handler awaits.
FacadeOp(tool) ==
    CASE tool = "get_current_playback" -> "current_playback"
      [] tool = "get_devices"          -> "devices"
      [] tool = "set_volume"           -> "volume"
      [] tool = "search_spotify"       -> "search"
      [] tool = "get_saved_tracks"     -> "current_user_saved_tracks"
      [] tool = "check_saved_tracks"   -> "current_user_saved_tracks_contains"
      [] tool = "save_tracks"          -> "current_user_saved_tracks_add"
      [] tool = "remove_saved_tracks"  -> "current_user_saved_tracks_delete"
      [] tool = "get_top_tracks"       -> "current_user_top_tracks"
      [] tool = "get_recently_played"  -> "current_user_recently_played"
      [] tool = "create_playlist"      -> "user_playlist_create"
      [] tool = "get_episode"          -> "episode"
      [] tool = "get_show_episodes"    -> "show_episodes"
      [] OTHER                         -> tool

\* The methods AsyncSpotify defines; any other name goes through __getattr__.
WrappedOps ==
    {"current_playback", "devices", "start_playback", "add_to_queue", "volume",
     "transfer_playback", "search", "current_user_top_tracks",
     "user_playlist_create", "current_user_saved_tracks",
     "current_user_saved_tracks_contains", "current_user_saved_tracks_add",
     "current_user_saved_tracks_delete", "current_user_recently_played",
     "episode", "show_episodes"}

\* The methods that pass the upstream result to <Model>.model_validate.
ValidatedOps ==
    {"current_playback", "devices", "search", "current_user_top_tracks",
     "user_playlist_create", "current_user_saved_tracks",
     "current_user_recently_played", "episode", "show_episodes"}

\* What the synchronous client may raise.
UpstreamErrors == {"SpotifyException", "ReadTimeout"}

\* What it may return: JSON with exactly the fields the response model
\* declares, JSON with those and further fields (the items of a search page),
\* JSON that lacks a required field, or None.
Payloads == {"conforming", "extra", "malformed", "null"}

NoResponse == [kind |-> "-", detail |-> "-"]

Idle ==
    [pc |-> "idle", tool |-> "-", device_id |-> None, method |-> "-",
     sent |-> None, facade |-> 0, calls |-> 0, up |-> "-", resp |-> NoResponse]

\* A validation that rejects fields the model does not declare.
ValidateForbidExtra(payload) ==
    IF payload = "conforming"
    THEN [kind |-> "result", detail |-> "conforming"]
    ELSE [kind |-> "error", detail |-> "ValidationError"]

\* <Model>.model_validate(result): the declared fields are kept, fields the
\* model does not declare are dropped, a missing required field (or None)
\* raises. The detail of a result is the content it carries.
Validate(payload) ==
    IF payload \in {"conforming", "extra"}
    THEN [kind |-> "result", detail |-> "conforming"]
    ELSE [kind |-> "error", detail |-> "ValidationError"]

\* A facade that validates the result of every method.
FacadeReturnValidated(op, up) ==
    IF up \in UpstreamErrors THEN [kind |-> "error", detail |-> up]
    ELSE Validate(up)

\* What the facade method returns or raises once the worker has returned.
FacadeReturn(op, up) ==
    IF up \in UpstreamErrors THEN [kind |-> "error", detail |-> up]
    ELSE IF op = "current_playback" /\ up = "null"
        THEN [kind |-> "result", detail |-> "null"]
    ELSE IF op \in ValidatedOps THEN Validate(up)
    ELSE [kind |-> "result", detail |-> up]

\* A handler that answers its acknowledgment whatever the facade raised.
HandlerReturnSwallow(tool, up) ==
    IF tool \in AckTools
    THEN [kind |-> "ack", detail |-> "success"]
    ELSE FacadeReturn(FacadeOp(tool), up)

\* What the handler answers: an error of the awaited facade call propagates,
\* otherwise ActionSuccessResponse or the facade's result.
HandlerReturn(tool, up) ==
    IF FacadeReturn(FacadeOp(tool), up).kind = "error"
    THEN FacadeReturn(FacadeOp(tool), up)
    ELSE IF tool \in AckTools
        THEN [kind |-> "ack", detail |-> "success"]
    ELSE FacadeReturn(FacadeOp(tool), up)

\* The method of the synchronous client a facade method hands to the worker:
\* self._client.<name>, and getattr(self._client, name) in __getattr__.
UpstreamMethod(op) == op

\* The device_id keyword the handler passes on: its own parameter.
UpstreamDevice(tool, device_id) == device_id

\* A handler that awaits the facade again when the call has failed.
ResumeRetry(r) ==
    IF r.up \in UpstreamErrors
    THEN [r EXCEPT !.pc = "queued", !.facade = @ + 1]
    ELSE [r EXCEPT !.pc = "done", !.resp = HandlerReturn(r.tool, r.up)]

\* The coroutine after its await: the handler returns or raises.
Resume(r) == [r EXCEPT !.pc = "done", !.resp = HandlerReturn(r.tool, r.up)]

\* The invocations whose upstream call occupies a worker thread.
Running == {i \in DOMAIN inv : inv[i].pc = "running"}

\* An executor of one thread.
WorkerFreeSingle == Running = {}

\* The executor has an idle thread.
WorkerFree == Cardinality(Running) < MaxWorkers

Init ==
    /\ ResolverInit
    /\ inv = [i \in 1..NumInv |-> Idle]
    /\ life = NotStarted

PoolInit ==
    /\ ResolverInit
    /\ inv = [i \in 1..PoolInv |-> Idle]
    /\ life = NotStarted

\* The server starts. lifespan runs nothing before its yield (the cache calls
\* are string literals), and FastMCP is built without it: no device listing
\* is fetched and no DeviceResolver is filled.
Startup ==
    /\ life.phase = "starting"
    /\ life' = [life EXCEPT !.phase = "serving"]
    /\ UNCHANGED <<device_map, before, log, last, inv>>

\* The server stops once no handler runs; lifespan runs nothing after its yield.
Shutdown ==
    /\ life.phase = "serving"
    /\ \A i \in DOMAIN inv : inv[i].pc = "idle"
    /\ life' = [life EXCEPT !.phase = "stopped"]
    /\ UNCHANGED <<device_map, before, log, last, inv>>

\* A tool call arrives: the handler builds its client and awaits the facade
\* method, which hands the synchronous call to asyncio.to_thread.
Invoke(i, tool, d) ==
    /\ life.phase = "serving"
    /\ inv[i].pc = "idle"
    /\ inv' = [inv EXCEPT ![i] =
                  [Idle EXCEPT !.pc = "queued", !.tool = tool, !.device_id = d,
                               !.method = UpstreamMethod(FacadeOp(tool)),
                               !.sent = UpstreamDevice(tool, d), !.facade = 1]]
    /\ UNCHANGED <<device_map, before, log, last, life>>

\* A worker thread takes the call and enters the synchronous client.
UpstreamStart(i) ==
    /\ inv[i].pc = "queued"
    /\ WorkerFree
    /\ inv' = [inv EXCEPT ![i].pc = "running", ![i].calls = @ + 1]
    /\ UNCHANGED <<device_map, before, log, last, life>>

\* The synchronous client returns a payload or raises.
UpstreamReturn(i, o) ==
    /\ inv[i].pc = "running"
    /\ inv' = [inv EXCEPT ![i].pc = "returned", ![i].up = o]
    /\ UNCHANGED <<device_map, before, log, last, life>>

\* The event loop resumes the coroutine and the handler finishes.
Complete(i) ==
    /\ inv[i].pc = "returned"
    /\ inv' = [inv EXCEPT ![i] = Resume(inv[i])]
    /\ UNCHANGED <<device_map, before, log, last, life>>

\* The answer goes to the caller; the slot serves the next call.
Reply(i) ==
    /\ inv[i].pc = "done"
    /\ inv' = [inv EXCEPT ![i] = Idle]
    /\ UNCHANGED <<device_map, before, log, last, life>>

Next ==
    \/ Startup
    \/ Shutdown
    \/ \E i \in DOMAIN inv, tool \in Tools :
           \E d \in DeviceArgsOf(tool) : Invoke(i, tool, d)
    \/ \E i \in DOMAIN inv : UpstreamStart(i)
    \/ \E i \in DOMAIN inv, o \in UpstreamErrors \cup Payloads :
           UpstreamReturn(i, o)
    \/ \E i \in DOMAIN inv : Complete(i)
    \/ \E i \in DOMAIN inv : Reply(i)

Spec == Init /\ [][Next]_vars

\* The tools the pool is exercised with: one wrapped method, one generic.
PoolTools == {"get_devices", "pause_playback"}

PoolNext ==
    \/ Startup
    \/ Shutdown
    \/ \E i \in DOMAIN inv, tool \in PoolTools : Invoke(i, tool, None)
    \/ \E i \in DOMAIN inv : UpstreamStart(i)
    \/ \E i \in DOMAIN inv, o \in UpstreamErrors \cup Payloads :
           UpstreamReturn(i, o)
    \/ \E i \in DOMAIN inv : Complete(i)
    \/ \E i \in DOMAIN inv : Reply(i)

PoolSpec == PoolInit /\ [][PoolNext]_vars

(***************************************************************************)
(* Properties of the DeviceResolver, checked under ResolverSpec            *)
(***************************************************************************)

\* The positions in log of the set_device calls that wrote the key of name n.
Writes(n) == {k \in 1..Len(log) : Lower(log[k][1]) = Lower(n)}

Latest(S) == CHOOSE k \in S : \A j \in S : j <= k

\* The lower-case partner of one letter, taken alone (Σ -> σ, A -> a).
SimpleLower(c) ==
    IF c = 931 THEN 963 ELSE IF c \in 65..90 THEN c + 32 ELSE c

\* Names n and m are the same letters, position by position, up to case.
DiffersOnlyInCase(n, m) ==
    /\ Len(n) = Len(m)
    /\ \A i \in 1..Len(n) : SimpleLower(n[i]) = SimpleLower(m[i])

\* A set_device after position k for the same name up to case, or the same key.
LaterSetFor(k) ==
    \E j \in (k + 1)..Len(log) :
        \/ DiffersOnlyInCase(log[j][1], log[k][1])
        \/ Lower(log[j][1]) = Lower(log[k][1])

\* C1: after set_device(n, id), with no later set_device for the same name up
\* to case and no invalidate, resolve(m) returns id for every name m that
\* differs from n only in letter case (n not empty).
C1_CaseInsensitive ==
    \A k \in 1..Len(log) :
        (log[k][1] # <<>> /\ ~LaterSetFor(k)) =>
            \A m \in Names :
                DiffersOnlyInCase(log[k][1], m) =>
                    resolve(device_map, m) = log[k][2]

\* C2: in every reachable registry state resolve(None) and resolve("") return
\* None, resolve(n) returns None for a name n whose key no set_device has
\* written since the last invalidate, and no resolve raises.
C2_AbsentWithoutError ==
    /\ resolve(device_map, None) = None
    /\ resolve(device_map, <<>>) = None
    /\ \A n \in Names : Writes(n) = {} => resolve(device_map, n) = None
    /\ \A n \in NameArgs : resolve(device_map, n) \in DeviceIds \cup {None}

\* C2 witness: the empty name was recorded, and resolve("") returned None.
C2_Witness ==
    /\ <<>> \in DOMAIN device_map
    /\ last.op = "resolve"
    /\ last.name = <<>>
    /\ last.ret = None

\* C3: right after invalidate() every name is unresolved, whatever was recorded
\* before, and a name is resolvable only when a set_device since the last
\* invalidate wrote its key.
C3_InvalidateUnresolves ==
    /\ last.op = "invalidate" =>
           \A n \in NameArgs : resolve(device_map, n) = None
    /\ \A n \in Names : resolve(device_map, n) # None => Writes(n) # {}

\* C3 witness: invalidate() ran on a registry in which a name was resolvable.
C3_Witness ==
    /\ last.op = "invalidate"
    /\ \E n \in Names : resolve(before, n) # None

\* C4 as claimed: resolve(n) returns the identifier of the most recent
\* set_device that wrote the key of n, for every name n, the empty one included.
C4_LastWriteWinsAnyName ==
    \A n \in Names :
        Writes(n) # {} => resolve(device_map, n) = log[Latest(Writes(n))][2]

\* C4 amended: for every non-empty name n, resolve(n) returns the identifier of
\* the most recent set_device that wrote the key of n, and so none recorded
\* earlier for that key.
C4_LastWriteWins ==
    \A n \in Names \ {<<>>} :
        Writes(n) # {} => resolve(device_map, n) = log[Latest(Writes(n))][2]

\* C4 witness: a key was written twice with different identifiers, and a
\* resolve of it returned the later one.
C4_Witness ==
    /\ last.op = "resolve"
    /\ last.name # None
    /\ \E j, k \in Writes(last.name) :
           /\ j < k
           /\ k = Latest(Writes(last.name))
           /\ log[j][2] # log[k][2]
           /\ last.ret = log[k][2]

\* The last two set_device calls had the same name and identifier, and no
\* other registry call changed the map between them.
RepeatedSet ==
    /\ last.op = "set_device"
    /\ Len(log) >= 2
    /\ log[Len(log)] = log[Len(log) - 1]

\* C5: set_device(name, id) called twice in a row leaves the registry as one
\* call does, from every registry state and for every name and identifier.
C5_SetDeviceIdempotent ==
    /\ RepeatedSet => device_map = before
    /\ \A n \in Names, id \in DeviceIds :
           set_device(set_device(device_map, n, id), n, id)
               = set_device(device_map, n, id)

\* C5 witness: the same set_device call was made twice in a row.
C5_Witness == RepeatedSet

(***************************************************************************)
(* Properties of the tool endpoints, checked under Spec                    *)
(***************************************************************************)

\* The invocations a handler is serving.
Active == {i \in DOMAIN inv : inv[i].pc # "idle"}

\* C6: a transfer_playback whose device name the resolver cannot resolve never
\* reaches the upstream transfer call and answers a "not found" acknowledgment.
C6_TransferUnresolvedNotFound ==
    \A i \in Active :
        (/\ inv[i].tool = "transfer_playback"
         /\ resolve(device_map, inv[i].device_id) = None) =>
            /\ inv[i].calls = 0
            /\ inv[i].pc = "done" =>
                   inv[i].resp = [kind |-> "ack", detail |-> "not found"]

\* C7: start_playback, pause_playback, add_to_queue and set_volume pass
\* upstream the resolver's result for the caller's device name, and no device
\* id when the name is unresolved.
C7_DeviceNameResolved ==
    \A i \in Active :
        inv[i].tool \in DeviceTools \ {"transfer_playback"} =>
            inv[i].sent = resolve(device_map, inv[i].device_id)

\* C8: an invocation awaits one facade operation, which makes one upstream
\* call: never a second one, whatever the upstream does, and exactly one of
\* each by the time the handler has finished.
C8_OneUpstreamCall ==
    \A i \in DOMAIN inv :
        /\ inv[i].facade <= 1
        /\ inv[i].calls <= 1
        /\ inv[i].pc \in {"running", "returned", "done"} =>
               (inv[i].facade = 1 /\ inv[i].calls = 1)

\* C8 witness: a handler has finished after its upstream call failed.
C8_Witness ==
    \E i \in DOMAIN inv :
        /\ inv[i].pc = "done"
        /\ inv[i].up \in UpstreamErrors
        /\ inv[i].calls = 1

\* C9: a failed upstream call reaches the caller as that same error, after one
\* call and with no result or acknowledgment; an acknowledgment is answered
\* only once the upstream call has returned without error.
C9_UpstreamErrorPropagates ==
    \A i \in DOMAIN inv :
        /\ (inv[i].pc = "done" /\ inv[i].up \in UpstreamErrors) =>
               /\ inv[i].resp = [kind |-> "error", detail |-> inv[i].up]
               /\ inv[i].calls = 1
        /\ inv[i].resp.kind = "ack" =>
               (inv[i].pc = "done" /\ inv[i].up \in Payloads)
        /\ inv[i].pc # "done" => inv[i].resp = NoResponse

\* C9 witness: an acknowledging handler has finished after its upstream call
\* raised.
C9_Witness ==
    \E i \in DOMAIN inv :
        /\ inv[i].pc = "done"
        /\ inv[i].tool \in AckTools
        /\ inv[i].up \in UpstreamErrors

(***************************************************************************)
(* Properties of the off-thread dispatch, checked under PoolSpec           *)
(***************************************************************************)

\* C10 as claimed: however many invocations are blocked in their upstream
\* call, every other invocation can start its own.
C10_AnyNumberBlocked ==
    \A i \in DOMAIN inv : inv[i].pc = "queued" => ENABLED UpstreamStart(i)

\* C10 amended: while fewer upstream calls are blocked than the executor has
\* threads, every other invocation can start its upstream call; and however
\* many are blocked, a new invocation is accepted and an invocation whose call
\* has returned can complete.
C10_BlockedCallBlocksOnlyItself ==
    \A i \in DOMAIN inv :
        /\ (inv[i].pc = "queued" /\ Cardinality(Running) < MaxWorkers) =>
               ENABLED UpstreamStart(i)
        /\ inv[i].pc = "returned" => ENABLED Complete(i)
        /\ (inv[i].pc = "idle" /\ life.phase = "serving") =>
               ENABLED Invoke(i, "get_devices", None)

\* C10 witness: one upstream call is blocked, another invocation waits to
\* start its call and a third has its call returned.
C10_Witness ==
    \E i, j, k \in DOMAIN inv :
        /\ inv[i].pc = "running"
        /\ Cardinality(Running) < MaxWorkers
        /\ inv[j].pc = "queued"
        /\ inv[k].pc = "returned"

\* The invocations whose upstream call has returned or raised.
Returned == {i \in DOMAIN inv : inv[i].pc \in {"returned", "done"}}

\* C12: an operation AsyncSpotify does not define (pause_playback) is
\* dispatched by name: the client's method of that name runs once on a worker
\* with the caller's arguments, its result comes back as it is, whatever the
\* payload, and its error comes back as it is.
C12_GenericDispatchRaw ==
    \A i \in DOMAIN inv :
        (inv[i].pc # "idle" /\ FacadeOp(inv[i].tool) \notin WrappedOps) =>
            /\ inv[i].method = FacadeOp(inv[i].tool)
            /\ inv[i].sent = inv[i].device_id
            /\ inv[i].calls <= 1
            /\ i \in Returned =>
                   /\ inv[i].calls = 1
                   /\ FacadeReturn(FacadeOp(inv[i].tool), inv[i].up)
                          = [kind |-> IF inv[i].up \in UpstreamErrors
                                      THEN "error" ELSE "result",
                             detail |-> inv[i].up]
            /\ (inv[i].pc = "done" /\ inv[i].up \in Payloads) =>
                   inv[i].resp.kind = "ack"

\* C12 witness: pause_playback has finished on a payload no model would
\* accept.
C12_Witness ==
    \E i \in DOMAIN inv :
        /\ inv[i].tool = "pause_playback"
        /\ inv[i].pc = "done"
        /\ inv[i].up = "malformed"
        /\ inv[i].resp.kind = "ack"

\* C13: every method AsyncSpotify defines calls the client's method of its
\* kind with the caller's parameters and returns what that call returned, for
\* every payload.
C13_FacadeRoundTrip ==
    \A i \in Returned :
        FacadeOp(inv[i].tool) \in WrappedOps =>
            /\ inv[i].sent = inv[i].device_id
            /\ inv[i].up \in Payloads =>
                   FacadeReturn(FacadeOp(inv[i].tool), inv[i].up)
                       = [kind |-> "result", detail |-> inv[i].up]

Accepted(tool, up) ==
    \/ FacadeOp(tool) \notin ValidatedOps
    \/ up \in {"conforming", "extra"}
    \/ (FacadeOp(tool) = "current_playback" /\ up = "null")

ProviderDevices == {<<<<65>>, <<49>>>>, <<<<97, 963>>, <<50>>>>}

\* The listings a refresh may receive: each device name at most once.
Listings ==
    {L \in SUBSET ({d[1] : d \in ProviderDevices} \X DeviceIds) :
        \A a, b \in L : a[1] = b[1] => a = b}

\* The server is running with an empty registry.
RefreshInit ==
    /\ ResolverInit
    /\ inv = <<>>
    /\ life = [NotStarted EXCEPT !.phase = "serving"]

\* A refresh begins on a new listing: the registry is invalidated.
RefreshStart(listing) ==
    /\ life.phase = "serving"
    /\ Invalidate
    /\ life' = [phase |-> "refreshing", listing |-> listing, todo |-> listing,
                old |-> device_map]

\* The refresh records one listed device.
RefreshStep(d) ==
    /\ life.phase = "refreshing"
    /\ d \in life.todo
    /\ SetDevice(d[1], d[2])
    /\ life' = [life EXCEPT !.todo = @ \ {d}]

\* The refresh has recorded every listed device.
RefreshEnd ==
    /\ life.phase = "refreshing"
    /\ life.todo = {}
    /\ life' = [life EXCEPT !.phase = "serving"]
    /\ UNCHANGED <<device_map, before, log, last, inv>>

\* A tool invocation resolves a device name, whatever the refresh is doing.
ReaderResolve(name) ==
    /\ ResolveCall(name)
    /\ UNCHANGED life

RefreshNext ==
    \/ \E listing \in Listings : RefreshStart(listing)
    \/ \E d \in life.todo : RefreshStep(d)
    \/ RefreshEnd
    \/ \E name \in NameArgs : ReaderResolve(name)

RefreshSpec == RefreshInit /\ [][RefreshNext]_vars

\* C11: once startup has completed the registry resolves every device the
\* provider lists to its identifier, and once the server has shut down the
\* registry is empty.
C11_RegistryLifecycle ==
    /\ life.phase = "serving" =>
           \A d \in ProviderDevices : resolve(device_map, d[1]) = d[2]
    /\ life.phase = "stopped" => device_map = EmptyMap

\* The identifiers a listing gives for the key of name n.
ListedIds(listing, n) == {d[2] : d \in {e \in listing : Lower(e[1]) = Lower(n)}}

C16_ResolverFrame ==
    /\ last.op = "resolve" =>
           /\ device_map = before
           /\ resolve(device_map, last.name) = last.ret
    /\ last.op = "set_device" =>
           \A m \in NameArgs :
               Lower(m) # Lower(last.name) =>
                   resolve(device_map, m) = resolve(before, m)

\* C16 witness: set_device wrote one key while a name of another key was
\* resolvable.
C16_Witness ==
    /\ last.op = "set_device"
    /\ \E m \in Names :
           /\ Lower(m) # Lower(last.name)
           /\ resolve(before, m) # None

====
